---- MODULE Spec2Model ----
(***************************************************************************)
(* Model of pulsarpy's backport of ENCODE Portal records (the Source) into *)
(* Pulsar LIMS (the Target): src/pulsarpy/backport_from_encode_portal.py.  *)
(*                                                                         *)
(* A string is a sequence of one-character strings, so that splitting on   *)
(* ':' is computed and not assumed. Every remote call (a Portal GET        *)
(* followed by the Target search it feeds, a Target post) is one atomic    *)
(* step of a process; the Python between two remote calls belongs to the   *)
(* step of the call that precedes it.                                      *)
(***************************************************************************)
EXTENDS Integers, Sequences, FiniteSets, TLC

\* ------------------------------------------------------------------ bounds
NumProcs == 2     \* processes that can run a backport
ConcCalls == 2    \* invocations of a run of overlapping calls
MaxCalls == 1     \* invocations of a run on a Target that holds earlier backports
MaxPre == 1       \* records that earlier backports left in Target
SeqCalls == 2     \* invocations of a run of non-overlapping calls on a fresh Target
AmbCalls == 1     \* invocations of a run on an inconsistent Target
NameCalls == 2    \* calls of set_name of a run
MaxRows == 2      \* rows below the header of an input sheet of tab_import

Procs == 1..NumProcs

\* ----------------------------------------------------------- property names
ACCESSION_PROP == "accession"
ALIASES_PROP == "aliases"
UPSTREAM_PROP == "upstream_identifier"
UUID_PROP == "uuid"

\* ------------------------------------------------------------- the Source
\* Records of the ENCODE Portal, as the JSON ENC_CONN.get returns them.
Donor1 ==
  [type |-> "donor", uuid |-> <<"u", "d", "1">>, atid |-> <<"/", "d", "1">>,
   accession |-> <<"D", "1">>, aliases |-> << <<"L", ":", "d", "1">> >>,
   age |-> <<"3", "0">>]

\* a donor without aliases
Donor2 ==
  [type |-> "donor", uuid |-> <<"u", "d", "2">>, atid |-> <<"/", "d", "2">>,
   accession |-> <<"D", "2">>, aliases |-> << >>]

Vendor1 ==
  [type |-> "source", uuid |-> <<"u", "v", "1">>, atid |-> <<"/", "v", "1">>,
   name |-> <<"s", "i", "g">>, description |-> <<"d">>, url |-> <<"w">>]

\* a treatment without documents, whose amount unit Target knows
Treatment1 ==
  [type |-> "treatment", uuid |-> <<"u", "t", "1">>, atid |-> <<"/", "t", "1">>,
   aliases |-> << <<"L", ":", "t", "1">> >>, documents |-> << >>,
   amount |-> 5, amount_units |-> <<"m", "M">>,
   duration |-> 2, duration_units |-> <<"h">>,
   treatment_term_name |-> <<"e", "t">>, treatment_term_id |-> <<"C", ":", "1">>,
   treatment_type |-> <<"c">>]

\* a treatment that links a document
Treatment2 ==
  [type |-> "treatment", uuid |-> <<"u", "t", "2">>, atid |-> <<"/", "t", "2">>,
   aliases |-> << >>, documents |-> << <<"/", "x">> >>,
   amount |-> 1, amount_units |-> <<"m", "M">>,
   duration |-> 1, duration_units |-> <<"h">>,
   treatment_term_name |-> <<"e", "t">>, treatment_term_id |-> <<"C", ":", "1">>,
   treatment_type |-> <<"c">>]

\* treatments without documents that have a temperature, in hundredths of a
\* degree of their unit
TreatmentRec(n, temp, units) ==
  [type |-> "treatment", uuid |-> <<"u", "t", n>>, atid |-> <<"/", "t", n>>,
   aliases |-> << >>, documents |-> << >>,
   amount |-> 1, amount_units |-> <<"m", "M">>,
   duration |-> 1, duration_units |-> <<"h">>,
   temperature |-> temp, temperature_units |-> units,
   treatment_term_name |-> <<"e", "t">>, treatment_term_id |-> <<"C", ":", "1">>,
   treatment_type |-> <<"c">>]

Treatment3 == TreatmentRec("3", 3700, "Celsius")
Treatment4 == TreatmentRec("4", 31015, "Kelvin")
Treatment5 == TreatmentRec("5", 9860, "Fahrenheit")
Treatment6 == TreatmentRec("6", 55000, "Rankine")

\* a treatment whose amount unit Target has no ConcentrationUnit for
Treatment7 ==
  [TreatmentRec("7", 3700, "Celsius") EXCEPT !.amount_units = <<"n", "M">>]

\* genetic modifications
Gm1 == [type |-> "gm", uuid |-> <<"u", "g", "1">>, atid |-> <<"/", "g", "1">>,
        accession |-> <<"G", "1">>, aliases |-> << >>, method |-> "CRISPR"]
Gm2 == [type |-> "gm", uuid |-> <<"u", "g", "2">>, atid |-> <<"/", "g", "2">>,
        accession |-> <<"G", "2">>, aliases |-> << >>, method |-> "CRISPR"]
Gm3 == [type |-> "gm", uuid |-> <<"u", "g", "3">>, atid |-> <<"/", "g", "3">>,
        accession |-> <<"G", "3">>, aliases |-> << >>, method |-> "RNAi"]

MissingId == <<"?">>     \* an identifier the Portal answers with a 404

BiosampleRec(n, als, don, src, treats, gms, bti, btype) ==
  [type |-> "biosample", uuid |-> <<"u", "b", n>>, atid |-> <<"/", "b", n>>,
   accession |-> <<"B", n>>, aliases |-> als,
   biosample_term_name |-> <<"l", "i", "v">>, biosample_term_id |-> bti,
   biosample_type |-> btype, donor |-> don, source |-> src,
   treatments |-> treats, genetic_modifications |-> gms,
   description |-> <<"d">>]

TermUberon == <<"U", ":", "7">>
TermUnknown == <<"X", ":", "7">>
TypeTissue == <<"t", "i">>
TypeUnknown == <<"o", "r">>

\* every dependency can be created or found
Biosample1 ==
  BiosampleRec("1", << <<"L", ":", "b", "1">> >>, Donor1.atid, Vendor1.atid,
               << >>, << >>, TermUberon, TypeTissue)
\* links two treatments
Biosample2 ==
  BiosampleRec("2", << <<"L", ":", "b", "2">> >>, Donor1.atid, Vendor1.atid,
               <<[uuid |-> Treatment1.uuid], [uuid |-> Treatment2.uuid]>>, << >>,
               TermUberon, TypeTissue)
\* links two CRISPR genetic modifications
Biosample3 ==
  BiosampleRec("3", << <<"L", ":", "b", "3">> >>, Donor1.atid, Vendor1.atid,
               << >>, <<[accession |-> Gm1.accession], [accession |-> Gm2.accession]>>,
               TermUberon, TypeTissue)
\* links a CRISPR genetic modification; its vendor is unknown to the Portal
Biosample4 ==
  BiosampleRec("4", << <<"L", ":", "b", "4">> >>, Donor1.atid, MissingId,
               << >>, <<[accession |-> Gm1.accession]>>, TermUberon, TypeTissue)
\* links one treatment and a genetic modification that is not CRISPR
Biosample5 ==
  BiosampleRec("5", << <<"L", ":", "b", "5">> >>, Donor1.atid, Vendor1.atid,
               <<[uuid |-> Treatment1.uuid]>>, <<[accession |-> Gm3.accession]>>,
               TermUberon, TypeTissue)
\* its biosample type is not in Target
Biosample6 ==
  BiosampleRec("6", << <<"L", ":", "b", "6">> >>, Donor1.atid, Vendor1.atid,
               << >>, << >>, TermUberon, TypeUnknown)

Donors == {Donor1, Donor2}
Vendors == {Vendor1}
Treatments == {Treatment1, Treatment2, Treatment3, Treatment4, Treatment5,
               Treatment6, Treatment7}
Biosamples == {Biosample1, Biosample2, Biosample3, Biosample4, Biosample5,
               Biosample6}
GeneticModifications == {Gm1, Gm2, Gm3}
SourceRecords == Donors \cup Vendors \cup Treatments \cup Biosamples
                   \cup GeneticModifications

Range(s) == {s[i] : i \in DOMAIN s}

Has(rec, prop) == prop \in DOMAIN rec

\* The identifiers under which the Portal serves a record.
Identifiers(rec) ==
  {rec.uuid, rec.atid}
    \cup (IF Has(rec, "accession") THEN {rec.accession} ELSE {})
    \cup (IF Has(rec, "aliases") THEN Range(rec.aliases) ELSE {})
    \cup (IF Has(rec, "name") THEN {rec.name} ELSE {})

NoRec == [type |-> "404"]

\* ENC_CONN.get(rec_id, ignore404=False): the record, or NoRec for a 404.
Get(rec_id) ==
  IF \E r \in SourceRecords : rec_id \in Identifiers(r)
    THEN CHOOSE r \in SourceRecords : rec_id \in Identifiers(r)
    ELSE NoRec

\* ------------------------------------------------------------- the Target
VARIABLES
  target,   \* Target's records in creation order; a record's id is its position
  stack,    \* per process: the call stack of the running invocation
  ret,      \* per process: the value the last nested call returned
  cur,      \* per process: the running top-level invocation
  done,     \* the finished top-level invocations, in order of completion
  ncalls,   \* top-level invocations started so far
  limit     \* top-level invocations the run makes

vars == <<target, stack, ret, cur, done, ncalls, limit>>

TargetRec(kind, by, pl) == [kind |-> kind, by |-> by, pl |-> pl]

\* models.<Model>.find_by(payload): the zero-or-one record of the model whose
\* field `key` holds one of `vals`; more than one hit is an AmbiguousMatch.
FindIn(tgt, kind, key, vals) ==
  LET hits == {i \in DOMAIN tgt : /\ tgt[i].kind = kind
                                  /\ key \in DOMAIN tgt[i].pl
                                  /\ tgt[i].pl[key] \in vals}
  IN  IF hits = {} THEN [st |-> "none", id |-> 0]
      ELSE IF Cardinality(hits) = 1
        THEN [st |-> "one", id |-> CHOOSE i \in hits : TRUE]
        ELSE [st |-> "ambiguous", id |-> 0]

find_by(kind, key, vals) == FindIn(target, kind, key, vals)

\* models.<Model>.post(payload): the record is appended, its id returned.
post(p, kind, pl) ==
  target' = Append(target, TargetRec(kind, cur[p].no, pl))

NewId == Len(target) + 1

\* mutant: the record the search found is not returned
IsHit_Never(hit) == FALSE

\* `if pulsar_rec:` (lines 83, 189, 251, 287, 351, 376): the search found a record
IsHit(hit) == hit.st = "one"

\* mutant: a lookup that finds nothing goes on without an id
NoneSubscripted_Tolerated(hit) == FALSE

\* `find_by(...)["id"]` (lines 93, 186): subscripting None is a TypeError
NoneSubscripted(hit) == hit.st = "none"

\* mutant: what find_by raises is swallowed
SearchFails_Swallowed(hit) == FALSE

\* no call of find_by is inside a try: what find_by raises ends the function
SearchFails(hit) == hit.st = "ambiguous"

\* ----------------------------------------------------------- call plumbing
NoCall == [no |-> 0, fn |-> "none", arg |-> << >>, start |-> 0, trail |-> {},
           res |-> 0, err |-> "none"]

Frame(fn, pc, arg) ==
  [fn |-> fn, pc |-> pc, arg |-> arg, pl |-> << >>, i |-> 1, resp |-> 0]

Top(p) == stack[p][Len(stack[p])]

At(p, fn, pc) ==
  /\ stack[p] # << >>
  /\ Top(p).fn = fn
  /\ Top(p).pc = pc

\* the top-level invocation of p ends with result res or error err
Finish(p, res, err) ==
  /\ done' = Append(done, [cur[p] EXCEPT !.res = res, !.err = err])
  /\ stack' = [stack EXCEPT ![p] = << >>]
  /\ cur' = [cur EXCEPT ![p] = NoCall]
  /\ ret' = [ret EXCEPT ![p] = 0]

\* `return rec`: to the caller's frame, or to the caller of the invocation
Return(p, id) ==
  IF Len(stack[p]) = 1
    THEN Finish(p, id, "none")
    ELSE /\ stack' = [stack EXCEPT ![p] = SubSeq(@, 1, Len(@) - 1)]
         /\ ret' = [ret EXCEPT ![p] = id]
         /\ UNCHANGED <<cur, done>>

\* an exception: no function of the module catches any, so it unwinds the
\* whole stack and ends the invocation
Raise(p, e) == Finish(p, 0, e)

\* the running function goes on with frame f
Goto(p, f) ==
  /\ stack' = [stack EXCEPT ![p] = [@ EXCEPT ![Len(@)] = f]]
  /\ UNCHANGED <<ret, cur, done>>

\* the running function, left in frame f, calls g
Call(p, f, g) ==
  /\ stack' = [stack EXCEPT ![p] = Append([@ EXCEPT ![Len(@)] = f], g)]
  /\ cur' = [cur EXCEPT ![p].trail = @ \cup {g.fn}]
  /\ UNCHANGED <<ret, done>>

\* -------------------------------------------------------------- donor()
\* mutant: the search leaves the accession out
DonorCandidates_AliasesOnly(rec) == rec.aliases

\* the query value of line 250
DonorCandidates(rec) == <<rec.accession>> \o rec.aliases

\* str.split(sep): the pieces of s between the occurrences of sep
RECURSIVE Split(_, _)
Split(s, sep) ==
  IF \E i \in DOMAIN s : s[i] = sep
    THEN LET k == CHOOSE i \in DOMAIN s :
                    s[i] = sep /\ \A j \in 1..(i - 1) : s[j] # sep
         IN  <<SubSeq(s, 1, k - 1)>> \o Split(SubSeq(s, k + 1, Len(s)), sep)
    ELSE <<s>>

\* euu.strip_alias_prefix(alias): alias.split(":")[-1]
StripAliasPrefix(alias) ==
  LET parts == Split(alias, ":") IN parts[Len(parts)]

\* line 260
DonorUpstream(rec) == rec.accession

\* mutant: age and sex are not copied
DonorOptional_Dropped(rec) == << >>

\* lines 254-259: age and sex are copied only if the record has them
DonorOptional(rec) ==
  (IF Has(rec, "age") THEN ("age" :> rec.age) ELSE << >>)
    @@ (IF Has(rec, "sex") THEN ("gender" :> rec.sex) ELSE << >>)

\* lines 246-261: fetch, search, and on a miss assemble the payload
DonorFind(p) ==
  /\ At(p, "donor", "find")
  /\ UNCHANGED <<target, ncalls, limit>>
  /\ LET rec == Get(Top(p).arg)
         hit == find_by("Donor", UPSTREAM_PROP, Range(DonorCandidates(rec)))
     IN  IF rec = NoRec THEN Raise(p, "SourceNotFound")
         ELSE IF SearchFails(hit) THEN Raise(p, "AmbiguousMatch")
         ELSE IF IsHit(hit) THEN Return(p, hit.id)
         ELSE IF rec.aliases = << >> THEN Raise(p, "IndexError")
         ELSE Goto(p, [Top(p) EXCEPT
                !.pc = "post",
                !.pl = DonorOptional(rec)
                         @@ (UPSTREAM_PROP :> DonorUpstream(rec))
                         @@ ("name" :> StripAliasPrefix(rec.aliases[1]))])

\* mutant: the post is an upsert on the upstream identifier
DonorPost_Upsert(p) ==
  /\ At(p, "donor", "post")
  /\ UNCHANGED <<ncalls, limit>>
  /\ LET hit == find_by("Donor", UPSTREAM_PROP, {Top(p).pl[UPSTREAM_PROP]})
     IN  IF hit.st = "none"
           THEN post(p, "Donor", Top(p).pl) /\ Return(p, NewId)
           ELSE UNCHANGED target /\ Return(p, hit.id)

\* line 262
DonorPost(p) ==
  /\ At(p, "donor", "post")
  /\ post(p, "Donor", Top(p).pl)
  /\ Return(p, NewId)
  /\ UNCHANGED <<ncalls, limit>>

\* ------------------------------------------------------------- vendor()
\* the query value of line 375
VendorCandidates(rec) == <<rec.name, rec.uuid, rec.atid>>

\* line 381
VendorUpstream(rec) == rec.atid

\* lines 372-382
VendorFind(p) ==
  /\ At(p, "vendor", "find")
  /\ UNCHANGED <<target, ncalls, limit>>
  /\ LET rec == Get(Top(p).arg)
         hit == find_by("Vendor", UPSTREAM_PROP, Range(VendorCandidates(rec)))
     IN  IF rec = NoRec THEN Raise(p, "SourceNotFound")
         ELSE IF SearchFails(hit) THEN Raise(p, "AmbiguousMatch")
         ELSE IF IsHit(hit) THEN Return(p, hit.id)
         ELSE Goto(p, [Top(p) EXCEPT
                !.pc = "post",
                !.pl = (UPSTREAM_PROP :> VendorUpstream(rec)) @@ ("name" :> rec.name)
                         @@ ("description" :> rec.description)
                         @@ ("url" :> rec.url)])

\* line 383
VendorPost(p) ==
  /\ At(p, "vendor", "post")
  /\ post(p, "Vendor", Top(p).pl)
  /\ Return(p, NewId)
  /\ UNCHANGED <<ncalls, limit>>

\* ------------------------------------------------- biosample_term_name()
\* mutant: a term whose prefix names no ontology goes under the first ontology
ontology_name_Default(biosample_term_id) == <<"U">>

\* line 185
ontology_name(biosample_term_id) == Split(biosample_term_id, ":")[1]

\* lines 182-186: the ontology named by the prefix of the term id is looked
\* up and subscripted; subscripting None is a TypeError
BiosampleTermNameOntology(p) ==
  /\ At(p, "biosample_term_name", "ontology")
  /\ UNCHANGED <<target, ncalls, limit>>
  /\ LET biosample_term_name == Top(p).arg[1]
         biosample_term_id == Top(p).arg[2]
         onto == find_by("BiosampleOntology", "name",
                         {ontology_name(biosample_term_id)})
     IN  IF SearchFails(onto) THEN Raise(p, "AmbiguousMatch")
         ELSE IF NoneSubscripted(onto) THEN Raise(p, "TypeError")
         ELSE Goto(p, [Top(p) EXCEPT
                !.pc = "find",
                !.pl = ("name" :> biosample_term_name)
                         @@ (ACCESSION_PROP :> biosample_term_id)
                         @@ ("biosample_ontology_id" :> onto.id)])

\* lines 188-190
BiosampleTermNameFind(p) ==
  /\ At(p, "biosample_term_name", "find")
  /\ UNCHANGED <<target, ncalls, limit>>
  /\ LET hit == find_by("BiosampleTermName", ACCESSION_PROP, {Top(p).arg[2]})
     IN  IF SearchFails(hit) THEN Raise(p, "AmbiguousMatch")
         ELSE IF IsHit(hit) THEN Return(p, hit.id)
         ELSE Goto(p, [Top(p) EXCEPT !.pc = "post"])

\* line 191
BiosampleTermNamePost(p) ==
  /\ At(p, "biosample_term_name", "post")
  /\ post(p, "BiosampleTermName", Top(p).pl)
  /\ Return(p, NewId)
  /\ UNCHANGED <<ncalls, limit>>

\* ------------------------------------------------- treatment_term_name()
\* mutant: the term is posted without a search
TreatmentTermNameFind_Blind(p) ==
  /\ At(p, "treatment_term_name", "find")
  /\ UNCHANGED <<target, ncalls, limit>>
  /\ Goto(p, [Top(p) EXCEPT
         !.pc = "post",
         !.pl = ("name" :> Top(p).arg[1]) @@ (ACCESSION_PROP :> Top(p).arg[2])])

\* lines 347-352
TreatmentTermNameFind(p) ==
  /\ At(p, "treatment_term_name", "find")
  /\ UNCHANGED <<target, ncalls, limit>>
  /\ LET hit == find_by("TreatmentTermName", ACCESSION_PROP, {Top(p).arg[2]})
     IN  IF SearchFails(hit) THEN Raise(p, "AmbiguousMatch")
         ELSE IF IsHit(hit) THEN Return(p, hit.id)
         ELSE Goto(p, [Top(p) EXCEPT
                !.pc = "post",
                !.pl = ("name" :> Top(p).arg[1])
                         @@ (ACCESSION_PROP :> Top(p).arg[2])])

\* line 353
TreatmentTermNamePost(p) ==
  /\ At(p, "treatment_term_name", "post")
  /\ post(p, "TreatmentTermName", Top(p).pl)
  /\ Return(p, NewId)
  /\ UNCHANGED <<ncalls, limit>>

\* ----------------------------------------------------------- treatment()
\* the query value of line 286
TreatmentCandidates(rec) == rec.aliases \o <<rec.uuid, rec.atid>>

\* lines 283-299. document() (line 209) raises before any remote call: its
\* message formats `rec`, a local that is only bound further down.
TreatmentFind(p) ==
  /\ At(p, "treatment", "find")
  /\ UNCHANGED <<target, ncalls, limit>>
  /\ LET rec == Get(Top(p).arg)
         hit == find_by("Treatment", UPSTREAM_PROP, Range(TreatmentCandidates(rec)))
         upstream_identifier ==
           IF rec.aliases # << >> THEN rec.aliases[1] ELSE rec.uuid
     IN  IF rec = NoRec THEN Raise(p, "SourceNotFound")
         ELSE IF SearchFails(hit) THEN Raise(p, "AmbiguousMatch")
         ELSE IF IsHit(hit) THEN Return(p, hit.id)
         ELSE IF rec.documents # << >> THEN Raise(p, "UnboundLocalError")
         ELSE Goto(p, [Top(p) EXCEPT
                !.pc = "unit",
                !.pl = (UPSTREAM_PROP :> upstream_identifier)
                         @@ ("concentration" :> rec.amount)])

\* pulsarpy.utils.kelvin_to_celsius, on hundredths of a degree
kelvin_to_celsius(temp) == temp - 27315

\* pulsarpy.utils.fahrenheit_to_celsius, on hundredths of a degree
fahrenheit_to_celsius(temp) == ((temp - 3200) * 5) \div 9

\* lines 311-316: the local `temp` after the conversion; a unit that is
\* neither Kelvin nor Fahrenheit leaves it as it is
TreatmentTemp(rec) ==
  IF rec.temperature_units = "Kelvin"
    THEN kelvin_to_celsius(rec.temperature)
  ELSE IF rec.temperature_units = "Fahrenheit"
    THEN fahrenheit_to_celsius(rec.temperature)
  ELSE rec.temperature

\* lines 310 and 317: what goes into the payload is rec["temperature"], not
\* the local `temp`
TreatmentTemperature(rec) ==
  IF Has(rec, "temperature")
    THEN LET temp == TreatmentTemp(rec) IN ("temperature" :> rec.temperature)
    ELSE << >>

\* lines 301-321: the ConcentrationUnit must be in Target; then the term name
TreatmentUnit(p) ==
  /\ At(p, "treatment", "unit")
  /\ UNCHANGED <<target, ncalls, limit>>
  /\ LET rec == Get(Top(p).arg)
         unit == find_by("ConcentrationUnit", "name", {rec.amount_units})
     IN  IF SearchFails(unit) THEN Raise(p, "AmbiguousMatch")
         ELSE IF unit.st = "none" THEN Raise(p, "ConcentrationUnitNotFound")
         ELSE Call(p, [Top(p) EXCEPT
                         !.pc = "name",
                         !.pl = @ @@ ("concentration_unit_id" :> unit.id)
                                  @@ ("duration" :> rec.duration)
                                  @@ ("duration_units" :> rec.duration_units)
                                  @@ TreatmentTemperature(rec)],
                   Frame("treatment_term_name", "find",
                         <<rec.treatment_term_name, rec.treatment_term_id>>))

\* mutant: the name is taken from upstream_identifier and the payload posted
TreatmentName_Posted(p) ==
  /\ At(p, "treatment", "name")
  /\ UNCHANGED <<ncalls, limit>>
  /\ post(p, "Treatment",
          Top(p).pl @@ ("treatment_term_name_id" :> ret[p])
                    @@ ("name" :> StripAliasPrefix(Top(p).pl[UPSTREAM_PROP])))
  /\ Return(p, NewId)

\* lines 321-326: `upstream` is not a name of the function or of the module,
\* so line 326 raises NameError and line 327 (the post) is never reached
TreatmentName(p) ==
  /\ At(p, "treatment", "name")
  /\ UNCHANGED <<target, ncalls, limit>>
  /\ Raise(p, "NameError")

\* ------------------------------------------------------------- set_name()
None == <<"None">>

\* the characters of a property name
PropChars(prop) ==
  CASE prop = "uuid" -> <<"u", "u", "i", "d">>
    [] prop = "name" -> <<"n", "a", "m", "e">>
    [] prop = "type" -> <<"t", "y", "p", "e">>
    [] prop = "url" -> <<"u", "r", "l">>
    [] OTHER -> <<prop>>

\* `s in rec`: s is one of the record's property names
IsKey(rec, s) == \E prop \in DOMAIN rec : PropChars(prop) = s

\* lines 53-59
set_name(rec) ==
  IF Has(rec, ALIASES_PROP)
    THEN IF rec.aliases = << >> \/ Len(Split(rec.aliases[1], ":")) < 2
           THEN [err |-> "IndexError", val |-> None]
           ELSE [err |-> "none", val |-> Split(rec.aliases[1], ":")[2]]
  ELSE IF Has(rec, ACCESSION_PROP)
    THEN [err |-> "none", val |-> rec.accession]
  ELSE IF ~Has(rec, UUID_PROP)
    THEN [err |-> "KeyError", val |-> None]
  ELSE IF IsKey(rec, rec.uuid)
    THEN [err |-> "none", val |-> rec.uuid]
  ELSE [err |-> "Exception", val |-> None]

\* set_name(rec) called on its own: lines 53-59
SetName(p) ==
  /\ At(p, "set_name", "call")
  /\ UNCHANGED <<target, ncalls, limit>>
  /\ LET name == set_name(Top(p).arg)
     IN  IF name.err # "none" THEN Raise(p, name.err)
         ELSE Return(p, name.val)

\* ----------------------------------------------------------- biosample()
\* the query value of line 82
BiosampleCandidates(rec) == rec.aliases \o <<rec.accession, rec.uuid, rec.atid>>

\* rec.get(prop)
RecGet(rec, prop) == IF Has(rec, prop) THEN rec[prop] ELSE None

\* mutant: the link is the uuid
BiosampleUpstream_Uuid(rec) == rec.uuid

\* line 86
BiosampleUpstream(rec) == rec.accession

\* lines 78-90
BiosampleFind(p) ==
  /\ At(p, "biosample", "find")
  /\ UNCHANGED <<target, ncalls, limit>>
  /\ LET rec == Get(Top(p).arg)
         hit == find_by("Biosample", UPSTREAM_PROP, Range(BiosampleCandidates(rec)))
         name == set_name(rec)
     IN  IF rec = NoRec THEN Raise(p, "SourceNotFound")
         ELSE IF SearchFails(hit) THEN Raise(p, "AmbiguousMatch")
         ELSE IF IsHit(hit) THEN Return(p, hit.id)
         ELSE IF name.err # "none" THEN Raise(p, name.err)
         ELSE Call(p, [Top(p) EXCEPT
                         !.pc = "type",
                         !.pl = (UPSTREAM_PROP :> BiosampleUpstream(rec))
                                  @@ ("name" :> name.val)],
                   Frame("biosample_term_name", "ontology",
                         <<rec.biosample_term_name, rec.biosample_term_id>>))

\* lines 91-99: the BiosampleType must be in Target; then the donor
BiosampleType(p) ==
  /\ At(p, "biosample", "type")
  /\ UNCHANGED <<target, ncalls, limit>>
  /\ LET rec == Get(Top(p).arg)
         btype == find_by("BiosampleType", "name", {rec.biosample_type})
         date_obtained ==
           IF RecGet(rec, "date_obtained") \in {None, << >>}
             THEN RecGet(rec, "culture_harvest_date")
             ELSE RecGet(rec, "date_obtained")
     IN  IF SearchFails(btype) THEN Raise(p, "AmbiguousMatch")
         ELSE IF NoneSubscripted(btype) THEN Raise(p, "TypeError")
         ELSE Call(p, [Top(p) EXCEPT
                         !.pc = "vendor",
                         !.pl = @ @@ ("biosample_term_name_id" :> ret[p])
                                  @@ ("biosample_type_id" :> btype.id)
                                  @@ ("date_biosample_taken" :> date_obtained)
                                  @@ ("description" :> RecGet(rec, "description"))],
                   Frame("donor", "find", rec.donor))

\* mutant: the biosample's vendor is not backported
BiosampleVendor_Skipped(p) ==
  /\ At(p, "biosample", "vendor")
  /\ UNCHANGED <<target, ncalls, limit>>
  /\ Goto(p, [Top(p) EXCEPT !.pc = "treatments",
                            !.pl = @ @@ ("donor_id" :> ret[p])])

\* lines 99-104: the donor's id is kept; then the vendor
BiosampleVendor(p) ==
  /\ At(p, "biosample", "vendor")
  /\ UNCHANGED <<target, ncalls, limit>>
  /\ LET rec == Get(Top(p).arg)
     IN  Call(p, [Top(p) EXCEPT
                    !.pc = "treatments",
                    !.pl = @ @@ ("donor_id" :> ret[p])
                             @@ ("lot_identifier" :> RecGet(rec, "lot_id"))
                             @@ ("nih_institutional_certification" :>
                                   RecGet(rec, "nih_institutional_certification"))
                             @@ ("tissue_preservation_method" :>
                                   RecGet(rec, "preservation_method"))
                             @@ ("passage_number" :> RecGet(rec, "passage_number"))],
              Frame("vendor", "find", rec.source))

\* lines 104-110: the vendor's id is kept; then the first treatment, if any
BiosampleTreatments(p) ==
  /\ At(p, "biosample", "treatments")
  /\ UNCHANGED <<target, ncalls, limit>>
  /\ LET rec == Get(Top(p).arg)
         f == [Top(p) EXCEPT
                 !.i = 1,
                 !.pl = @ @@ ("vendor_id" :> ret[p])
                          @@ ("vendor_product_identifier" :> RecGet(rec, "product_id"))
                          @@ ("treatment_ids" :> << >>)]
     IN  IF rec.treatments = << >>
           THEN Goto(p, [f EXCEPT !.pc = "post"])
           ELSE Call(p, [f EXCEPT !.pc = "treatment"],
                     Frame("treatment", "find", rec.treatments[1].uuid))

\* mutant: the id goes to the front of the list
AppendTreatmentId_Front(ids, id) == <<id>> \o ids

\* line 111: payload["treatment_ids"].append(pulsar_treat_rec["id"])
AppendTreatmentId(ids, id) == Append(ids, id)

\* lines 109-111: the treatment's id is appended; then the next treatment
BiosampleTreatment(p) ==
  /\ At(p, "biosample", "treatment")
  /\ UNCHANGED <<target, ncalls, limit>>
  /\ LET rec == Get(Top(p).arg)
         i == Top(p).i
         f == [Top(p) EXCEPT
                 !.i = i + 1,
                 !.pl = [@ EXCEPT !["treatment_ids"] = AppendTreatmentId(@, ret[p])]]
     IN  IF i = Len(rec.treatments)
           THEN Goto(p, [f EXCEPT !.pc = "post"])
           ELSE Call(p, f, Frame("treatment", "find", rec.treatments[i + 1].uuid))

\* lines 114-119 and 125
BiosamplePost(p) ==
  /\ At(p, "biosample", "post")
  /\ post(p, "Biosample", Top(p).pl)
  /\ UNCHANGED <<ncalls, limit>>
  /\ LET rec == Get(Top(p).arg)
     IN  IF rec.genetic_modifications = << >>
           THEN Return(p, NewId)
           ELSE Goto(p, [Top(p) EXCEPT !.pc = "gm", !.i = 1, !.resp = NewId])

\* mutant: the CRISPR step is skipped and the created record returned
BiosampleGm_Skipped(p) ==
  /\ At(p, "biosample", "gm")
  /\ UNCHANGED <<target, ncalls, limit>>
  /\ Return(p, Top(p).resp)

\* lines 119-125. The GET of line 120 passes `ignoreo404`, which is not the
\* name of a parameter of Connection.get in encode_utils: the call is a
\* TypeError unless the installed get() takes stray keywords.
\* crispr_modification() (line 147) raises before doing anything.
BiosampleGm(p) ==
  /\ At(p, "biosample", "gm")
  /\ UNCHANGED <<target, ncalls, limit>>
  /\ LET rec == Get(Top(p).arg)
         i == Top(p).i
         gm == Get(rec.genetic_modifications[i].accession)
     IN  \/ Raise(p, "TypeError")
         \/ IF gm.method # "CRISPR"
              THEN IF i = Len(rec.genetic_modifications)
                     THEN Return(p, Top(p).resp)
                     ELSE Goto(p, [Top(p) EXCEPT !.i = i + 1])
              ELSE Raise(p, "NotImplemented")

\* ------------------------------------------------- scripts/tab_import.py
TAB == "\t"

\* str.strip(): without the blanks at both ends
Strip(s) ==
  LET inked == {i \in DOMAIN s : s[i] # " "}
  IN  IF inked = {} THEN << >>
      ELSE SubSeq(s, CHOOSE i \in inked : \A j \in inked : i <= j,
                     CHOOSE i \in inked : \A j \in inked : j <= i)

\* x.startswith("#")
StartsWithHash(x) == x # << >> /\ x[1] = "#"

\* field_name.endswith("ids")
EndsWithIds(x) == Len(x) >= 3 /\ SubSeq(x, Len(x) - 2, Len(x)) = <<"i", "d", "s">>

\* list.index(x): the first position that holds x
Index(list, x) ==
  CHOOSE i \in DOMAIN list : list[i] = x /\ \A j \in 1..(i - 1) : list[j] # x

\* line 40: `not x.startswith("#") and x.strip()`
IsField(x) == ~StartsWithHash(x) /\ Strip(x) # << >>

\* line 40: for each field name of the header, the position header.index finds
field_positions(header) ==
  LET names == SelectSeq(header, IsField)
  IN  [k \in DOMAIN names |-> Index(header, names[k])]

\* line 55
SplitIds(val) ==
  LET parts == Split(val, ",") IN [k \in DOMAIN parts |-> Strip(parts[k])]

\* lines 48-56: the payload of a row, the first k field positions done;
\* line[pos] of a row with too few cells is an IndexError
RECURSIVE RowPayload(_, _, _, _)
RowPayload(header, positions, line, k) ==
  IF k = 0 THEN [err |-> "none", pl |-> << >>]
  ELSE LET sofar == RowPayload(header, positions, line, k - 1)
           pos == positions[k]
           val == Strip(line[pos])
           field_name == header[pos]
       IN  IF sofar.err # "none" THEN sofar
           ELSE IF pos > Len(line) THEN [err |-> "IndexError", pl |-> << >>]
           ELSE IF val = << >> THEN sofar
           ELSE [err |-> "none",
                 pl |-> (field_name :> (IF EndsWithIds(field_name)
                                          THEN SplitIds(val) ELSE val))
                          @@ sofar.pl]

\* lines 33-41: the header line is read and split
TabHeader(p) ==
  /\ At(p, "main", "header")
  /\ UNCHANGED <<target, ncalls, limit>>
  /\ LET header == Split(Top(p).arg.header, TAB)
     IN  Goto(p, [Top(p) EXCEPT !.pc = "rows", !.i = 1,
                                !.pl = field_positions(header)])

\* lines 42-59: the next line of the file; a line that starts with '#' is
\* skipped, any other is posted
TabRow(p) ==
  /\ At(p, "main", "rows")
  /\ UNCHANGED <<ncalls, limit>>
  /\ LET sheet == Top(p).arg
         header == Split(sheet.header, TAB)
         n == Top(p).i
         row == RowPayload(header, Top(p).pl, Split(sheet.rows[n], TAB),
                           Len(Top(p).pl))
     IN  IF n > Len(sheet.rows)
           THEN Return(p, 0) /\ UNCHANGED target
         ELSE IF StartsWithHash(sheet.rows[n])
           THEN Goto(p, [Top(p) EXCEPT !.i = n + 1]) /\ UNCHANGED target
         ELSE IF row.err # "none"
           THEN Raise(p, row.err) /\ UNCHANGED target
         ELSE /\ post(p, sheet.model, row.pl)
              /\ Goto(p, [Top(p) EXCEPT !.i = n + 1])

\* ------------------------------------------------------------ the callers
Calls ==
  {[fn |-> "donor", pc |-> "find", arg |-> r.uuid] : r \in Donors}
    \cup {[fn |-> "vendor", pc |-> "find", arg |-> r.atid] : r \in Vendors}
    \cup {[fn |-> "treatment", pc |-> "find", arg |-> r.uuid] : r \in Treatments}
    \cup {[fn |-> "biosample", pc |-> "find", arg |-> r.uuid] : r \in Biosamples}
    \cup {[fn |-> "biosample_term_name", pc |-> "ontology",
           arg |-> <<Biosample1.biosample_term_name, id>>] :
            id \in {TermUberon, TermUnknown}}
    \cup {[fn |-> "treatment_term_name", pc |-> "find",
           arg |-> <<r.treatment_term_name, r.treatment_term_id>>] : r \in Treatments}

Idle(p) == stack[p] = << >>

\* a caller invokes one of the module's functions
Invoke(p, c) ==
  /\ Idle(p)
  /\ ncalls < limit
  /\ ncalls' = ncalls + 1
  /\ cur' = [cur EXCEPT ![p] =
               [no |-> ncalls + 1, fn |-> c.fn, arg |-> c.arg,
                start |-> Len(target), trail |-> {}, res |-> 0, err |-> "none"]]
  /\ stack' = [stack EXCEPT ![p] = <<Frame(c.fn, c.pc, c.arg)>>]
  /\ UNCHANGED <<target, ret, done, limit>>

\* invocations that do not overlap: one caller, one invocation at a time
SeqInvoke == \E c \in Calls : (\A q \in Procs : Idle(q)) /\ Invoke(1, c)

\* the records set_name is called with: each of aliases, accession and uuid
\* may be absent; the aliases may be empty, have one or several ':', or none;
\* the uuid may happen to spell one of the record's property names
NameRecords ==
  {[type |-> "record"] @@ als @@ acc @@ uu :
     als \in {<< >>} \cup {(ALIASES_PROP :> a) :
                a \in {<< >>,
                       << <<"L", ":", "n">> >>,
                       << <<"L", ":", "a", ":", "b">> >>,
                       << <<"n", "o">> >>,
                       << <<"L", ":", "x">>, <<"M", ":", "y">> >>}},
     acc \in {<< >>, (ACCESSION_PROP :> <<"E", "1">>)},
     uu \in {<< >>} \cup {(UUID_PROP :> u) :
                u \in {<<"u", "1">>, <<"t", "y", "p", "e">>}}}

\* a caller applies set_name to a record it holds
NameInvoke ==
  \E r \in NameRecords :
    (\A q \in Procs : Idle(q)) /\ Invoke(1, [fn |-> "set_name", pc |-> "call", arg |-> r])

\* the lines of the input sheets
Join(cells) ==
  IF Len(cells) = 2 THEN cells[1] \o <<TAB>> \o cells[2]
  ELSE cells[1] \o <<TAB>> \o cells[2] \o <<TAB>> \o cells[3]

\* header lines: two fields; a column that is commented out; a blank field
\* name; a field name that two columns have
HeaderLines ==
  {Join(<< <<"n">>, <<"i", "d", "s">> >>),
   Join(<< <<"n">>, <<"#", "c">>, <<"i", "d", "s">> >>),
   Join(<< <<"n">>, <<" ">>, <<"m">> >>),
   Join(<< <<"n">>, <<"m">>, <<"n">> >>)}

\* rows of two or three cells: empty cells, blanks around a value, a comma
\* list, a row that is commented out
RowLines ==
  {Join(<<a, b>>) : a \in {<< >>, <<"a">>},
                    b \in {<< >>, <<"b">>, <<"1", ",", " ", "2">>}}
    \cup {Join(<<a, b, c>>) : a \in {<< >>, <<"a">>}, b \in {<< >>, <<" ", "b">>},
                              c \in {<< >>, <<"7">>}}
    \cup {Join(<< <<"#", "a">>, <<"b">>, <<"c">> >>)}

Sheets ==
  {[model |-> "Biosample", header |-> h, rows |-> rows] :
     h \in HeaderLines,
     rows \in UNION {[1..n -> RowLines] : n \in 0..MaxRows}}

\* tab_import is run on an input sheet
TabInvoke ==
  \E sheet \in Sheets :
    (\A q \in Procs : Idle(q))
      /\ Invoke(1, [fn |-> "main", pc |-> "header", arg |-> sheet])

\* the invocations that runs of overlapping calls make: the procedures that
\* backport one record, and treatment, whose nested call of
\* treatment_term_name overlaps with the top-level ones
OverlapCalls ==
  {c \in Calls :
     \/ c.arg \in {Donor1.uuid, Vendor1.atid, Treatment1.uuid}
     \/ c.fn = "treatment_term_name"
     \/ c.fn = "biosample_term_name" /\ c.arg[2] = TermUberon}

\* invocations that may overlap: an idle process may start one at any time
\* (the processes are interchangeable: the lowest idle one takes it)
ConcInvoke ==
  \E p \in Procs : \E c \in OverlapCalls :
    /\ \A q \in Procs : q < p => ~Idle(q)
    /\ Invoke(p, c)

Step(p) ==
  \/ DonorFind(p) \/ DonorPost(p)
  \/ VendorFind(p) \/ VendorPost(p)
  \/ BiosampleTermNameOntology(p) \/ BiosampleTermNameFind(p)
  \/ BiosampleTermNamePost(p)
  \/ TreatmentTermNameFind(p) \/ TreatmentTermNamePost(p)
  \/ TreatmentFind(p) \/ TreatmentUnit(p) \/ TreatmentName(p)
  \/ BiosampleFind(p) \/ BiosampleType(p) \/ BiosampleVendor(p)
  \/ BiosampleTreatments(p) \/ BiosampleTreatment(p)
  \/ BiosamplePost(p) \/ BiosampleGm(p)

\* the steps of the procedures that overlapping invocations run
StepConc(p) ==
  \/ DonorFind(p) \/ DonorPost(p)
  \/ VendorFind(p) \/ VendorPost(p)
  \/ BiosampleTermNameOntology(p) \/ BiosampleTermNameFind(p)
  \/ BiosampleTermNamePost(p)
  \/ TreatmentTermNameFind(p) \/ TreatmentTermNamePost(p)
  \/ TreatmentFind(p) \/ TreatmentUnit(p) \/ TreatmentName(p)

\* --------------------------------------------------- Target before a run
\* the lookup tables that are never backported
Lookups ==
  <<TargetRec("BiosampleOntology", 0, ("name" :> <<"U">>)),
    TargetRec("BiosampleType", 0, ("name" :> TypeTissue)),
    TargetRec("ConcentrationUnit", 0, ("name" :> <<"m", "M">>))>>

\* the field that links a Target record of the kind to its Source identity
LinkOf(kind) ==
  IF kind \in {"BiosampleTermName", "TreatmentTermName"}
    THEN ACCESSION_PROP ELSE UPSTREAM_PROP

KindOf(rec) ==
  CASE rec.type = "donor" -> "Donor"
    [] rec.type = "source" -> "Vendor"
    [] rec.type = "treatment" -> "Treatment"
    [] rec.type = "biosample" -> "Biosample"
    [] OTHER -> "CrisprModification"

Backported == Donors \cup Vendors \cup Treatments \cup Biosamples

\* a record an earlier backport may have left in Target: linked to its Source
\* record under any one of that record's identifiers
PreLinked ==
  {[src |-> r.uuid, rec |-> TargetRec(KindOf(r), 0, (UPSTREAM_PROP :> id))] :
     r \in Backported, id \in UNION {Identifiers(x) : x \in Backported}}

\* the Source records that earlier backports may have copied
PreBackported ==
  {Donor1, Donor2, Vendor1, Treatment1, Treatment2, Biosample1, Biosample3}

PreCandidates ==
  {c \in PreLinked : /\ Get(c.src) \in PreBackported
                     /\ c.rec.pl[UPSTREAM_PROP] \in Identifiers(Get(c.src))}
    \cup {[src |-> TermUberon,
           rec |-> TargetRec("BiosampleTermName", 0,
                     ("name" :> <<"l", "i", "v">>) @@ (ACCESSION_PROP :> TermUberon)
                       @@ ("biosample_ontology_id" :> 1))]}
    \cup {[src |-> Treatment1.treatment_term_id,
           rec |-> TargetRec("TreatmentTermName", 0,
                     ("name" :> Treatment1.treatment_term_name)
                       @@ (ACCESSION_PROP :> Treatment1.treatment_term_id))]}

\* the subsets of S of at most k elements
RECURSIVE UpTo(_, _)
UpTo(S, k) ==
  IF k = 0 THEN {{}}
  ELSE LET smaller == UpTo(S, k - 1)
       IN  smaller \cup {s \cup {x} : s \in smaller, x \in S}

RECURSIVE SetToSeq(_)
SetToSeq(S) ==
  IF S = {} THEN << >>
  ELSE LET x == CHOOSE y \in S : TRUE IN <<x.rec>> \o SetToSeq(S \ {x})

\* at most one Target record for a Source record
Consistent(S) == \A a, b \in S : a.src = b.src => a = b

InitProcs(n) ==
  /\ stack = [p \in Procs |-> << >>]
  /\ ret = [p \in Procs |-> 0]
  /\ cur = [p \in Procs |-> NoCall]
  /\ done = << >>
  /\ ncalls = 0
  /\ limit = n

\* a run of non-overlapping invocations against a Target that holds the lookup
\* tables and what earlier backports left
Init ==
  /\ \E S \in UpTo(PreCandidates, MaxPre) :
       Consistent(S) /\ target = Lookups \o SetToSeq(S)
  /\ InitProcs(MaxCalls)

Next == SeqInvoke \/ \E p \in Procs : Step(p)

Spec == Init /\ [][Next]_vars

\* a fresh Target: the lookup tables and, possibly, one treatment
Fresh ==
  {Lookups \o SetToSeq(S) :
     S \in UpTo({c \in PreCandidates :
                   c.rec.pl[LinkOf(c.rec.kind)] = Treatment1.aliases[1]}, 1)}

\* a longer run of non-overlapping invocations against a fresh Target
InitSeq ==
  /\ target \in Fresh
  /\ InitProcs(SeqCalls)

SpecSeq == InitSeq /\ [][Next]_vars

\* overlapping invocations against a fresh Target
InitConc ==
  /\ target \in Fresh
  /\ InitProcs(ConcCalls)

NextConc == ConcInvoke \/ \E p \in Procs : StepConc(p)

SpecConc == InitConc /\ [][NextConc]_vars

\* non-overlapping invocations against a Target that other tools also wrote:
\* one Source record has two Target records, under two of its identifiers
InitAmb ==
  /\ \E a, b \in PreCandidates : \E t \in Fresh :
       /\ a.src = b.src
       /\ a # b
       /\ target = t \o SetToSeq({a, b})
  /\ InitProcs(AmbCalls)

SpecAmb == InitAmb /\ [][Next]_vars

\* the treatments that earlier backports may have left in Target
PreTreatments == {c \in PreCandidates : c.rec.kind = "Treatment"}

\* a run of non-overlapping invocations against a Target that holds the lookup
\* tables and some treatments, created in any order
InitTreat ==
  /\ \E n \in 0..Cardinality(PreTreatments) : \E f \in [1..n -> PreTreatments] :
       /\ \A j, k \in 1..n : f[j].src = f[k].src => j = k
       /\ target = Lookups \o [k \in 1..n |-> f[k].rec]
  /\ InitProcs(MaxCalls)

SpecTreat == InitTreat /\ [][Next]_vars

\* a run of calls of set_name
InitName ==
  /\ target = Lookups
  /\ InitProcs(NameCalls)

NextName == NameInvoke \/ \E p \in Procs : SetName(p)

SpecName == InitName /\ [][NextName]_vars

\* one run of tab_import against an empty Target
InitTab ==
  /\ target = << >>
  /\ InitProcs(1)

NextTab == TabInvoke \/ \E p \in Procs : TabHeader(p) \/ TabRow(p)

SpecTab == InitTab /\ [][NextTab]_vars

\* ============================================================ properties
\* the invocations started so far, finished or running
Invocations == Range(done) \cup {cur[p] : p \in {q \in Procs : cur[q].no > 0}}

\* the ids of the records of a kind that invocation `no` created
CreatedBy(no, kind) ==
  {i \in DOMAIN target : target[i].by = no /\ target[i].kind = kind}

BackportedKinds == {"Donor", "Vendor", "Treatment", "Biosample"}

FnOf(kind) ==
  CASE kind = "Donor" -> "donor"
    [] kind = "Vendor" -> "vendor"
    [] kind = "Treatment" -> "treatment"
    [] kind = "Biosample" -> "biosample"
    [] kind = "BiosampleTermName" -> "biosample_term_name"
    [] kind = "TreatmentTermName" -> "treatment_term_name"

\* the identifiers the function of a kind searches Target for
Candidates(kind, rec) ==
  CASE kind = "Donor" -> DonorCandidates(rec)
    [] kind = "Vendor" -> VendorCandidates(rec)
    [] kind = "Treatment" -> TreatmentCandidates(rec)
    [] kind = "Biosample" -> BiosampleCandidates(rec)

\* Target as it was when invocation c started
TargetAtStart(c) == SubSeq(target, 1, c.start)

\* the search of invocation c, had it run on the Target c started with
SearchAtStart(c, kind) ==
  FindIn(TargetAtStart(c), kind, UPSTREAM_PROP, Range(Candidates(kind, Get(c.arg))))

\* the records of a kind linked to Source record rec under any identifier
LinkedTo(tgt, kind, rec) ==
  {i \in DOMAIN tgt : /\ tgt[i].kind = kind
                      /\ UPSTREAM_PROP \in DOMAIN tgt[i].pl
                      /\ tgt[i].pl[UPSTREAM_PROP] \in Identifiers(rec)}

\* ------------------------------------------------------------------- C1
\* C1, for the entity kind Treatment: when treatment(id) is invoked twice in
\* sequence on a Target that holds no match for the record, both invocations
\* return the same Target id and exactly one Treatment is created in total.
C1_TreatmentIdempotent ==
  \A k \in 1..(Len(done) - 1) :
    LET a == done[k]
        b == done[k + 1]
    IN  (/\ a.fn = "treatment" /\ b.fn = "treatment"
         /\ a.arg = b.arg
         /\ SearchAtStart(a, "Treatment").st = "none")
        => /\ a.err = "none" /\ b.err = "none"
           /\ a.res = b.res /\ a.res # 0
           /\ Cardinality(CreatedBy(a.no, "Treatment")
                            \cup CreatedBy(b.no, "Treatment")) = 1

\* ------------------------------------------------------------------- C2
\* C2: for every Source record, Target holds at most one record of its kind
\* whose upstream_identifier is one of the record's identifiers.
C2_AtMostOne ==
  \A rec \in Backported :
    Cardinality(LinkedTo(target, KindOf(rec), rec)) <= 1

\* ------------------------------------------------------------------- C3
\* C3: a Biosample that an invocation creates when neither its Donor nor its
\* Vendor was in Target at the start of the invocation comes after a Donor and
\* a Vendor that the same invocation created for it.
C3_DependenciesFirst ==
  \A c \in Invocations : \A i \in CreatedBy(c.no, "Biosample") :
    LET rec == Get(c.arg)
        don == Get(rec.donor)
        ven == Get(rec.source)
    IN  (/\ c.fn = "biosample"
         /\ LinkedTo(TargetAtStart(c), "Donor", don) = {}
         /\ LinkedTo(TargetAtStart(c), "Vendor", ven) = {})
        => /\ \E j \in CreatedBy(c.no, "Donor") :
                j < i /\ j \in LinkedTo(target, "Donor", don)
           /\ \E j \in CreatedBy(c.no, "Vendor") :
                j < i /\ j \in LinkedTo(target, "Vendor", ven)

\* a biosample() call has created the Donor, the Vendor and then the Biosample
C3_Witness ==
  \E c \in Invocations : \E i \in CreatedBy(c.no, "Biosample") :
    /\ c.fn = "biosample"
    /\ \E j \in CreatedBy(c.no, "Donor") : j < i
    /\ \E j \in CreatedBy(c.no, "Vendor") : j < i

\* ------------------------------------------------------------------- C4
\* record i of Target is of the kind and was there before record j
IsRef(i, kind, j) == i \in 1..(j - 1) /\ target[i].kind = kind

\* Target holds a record for every hard dependency of the biosample record
Resolved(rec) ==
  /\ Get(rec.donor) # NoRec
  /\ LinkedTo(target, "Donor", Get(rec.donor)) # {}
  /\ Get(rec.source) # NoRec
  /\ LinkedTo(target, "Vendor", Get(rec.source)) # {}
  /\ \E i \in DOMAIN target :
       /\ target[i].kind = "BiosampleTermName"
       /\ target[i].pl[ACCESSION_PROP] = rec.biosample_term_id
  /\ \E i \in DOMAIN target :
       /\ target[i].kind = "BiosampleType"
       /\ target[i].pl["name"] = rec.biosample_type
  /\ \A k \in DOMAIN rec.treatments :
       LinkedTo(target, "Treatment", Get(rec.treatments[k].uuid)) # {}

\* C4: every Biosample that an invocation created refers to a Donor, a Vendor,
\* a BiosampleTermName, a BiosampleType and one Treatment per linked treatment
\* that were in Target before it and belong to its Source record; a
\* biosample() call that missed and left a dependency unresolved ended with an
\* error and created no Biosample.
C4_NoDanglingKeys ==
  /\ \A c \in Invocations : \A i \in CreatedBy(c.no, "Biosample") :
       LET rec == Get(c.arg)
           pl == target[i].pl
       IN  /\ IsRef(pl["donor_id"], "Donor", i)
           /\ pl["donor_id"] \in LinkedTo(target, "Donor", Get(rec.donor))
           /\ IsRef(pl["vendor_id"], "Vendor", i)
           /\ pl["vendor_id"] \in LinkedTo(target, "Vendor", Get(rec.source))
           /\ IsRef(pl["biosample_term_name_id"], "BiosampleTermName", i)
           /\ target[pl["biosample_term_name_id"]].pl[ACCESSION_PROP]
                = rec.biosample_term_id
           /\ IsRef(pl["biosample_type_id"], "BiosampleType", i)
           /\ target[pl["biosample_type_id"]].pl["name"] = rec.biosample_type
           /\ Len(pl["treatment_ids"]) = Len(rec.treatments)
           /\ \A k \in DOMAIN rec.treatments :
                /\ IsRef(pl["treatment_ids"][k], "Treatment", i)
                /\ pl["treatment_ids"][k]
                     \in LinkedTo(target, "Treatment", Get(rec.treatments[k].uuid))
  /\ \A k \in DOMAIN done :
       LET c == done[k]
           rec == Get(c.arg)
       IN  (/\ c.fn = "biosample"
            /\ SearchAtStart(c, "Biosample").st = "none"
            /\ ~Resolved(rec))
           => /\ c.err # "none"
              /\ c.res = 0
              /\ CreatedBy(c.no, "Biosample") = {}

\* one biosample() call created its Biosample, and another one ended with an
\* error on a dependency after it had created the Donor
C4_Witness ==
  /\ \E c \in Range(done) : CreatedBy(c.no, "Biosample") # {}
  /\ \E c \in Range(done) :
       /\ c.fn = "biosample"
       /\ ~Resolved(Get(c.arg))
       /\ c.err # "none"
       /\ CreatedBy(c.no, "Donor") # {}

\* ------------------------------------------------------------------- C5
\* C5: an invocation of donor, vendor, treatment or biosample whose search
\* matches one record of the Target it started with calls no other function,
\* creates no record of any kind, takes no step but the search, and returns
\* the matched record.
C5_HitShortCircuit ==
  \A kind \in BackportedKinds : \A c \in Invocations :
    (/\ c.fn = FnOf(kind)
     /\ Get(c.arg) # NoRec
     /\ SearchAtStart(c, kind).st = "one")
    => /\ c.trail = {}
       /\ \A i \in DOMAIN target : target[i].by # c.no
       /\ \A p \in Procs :
            cur[p] = c => Len(stack[p]) = 1 /\ Top(p).pc = "find"
       /\ \A k \in DOMAIN done :
            done[k] = c => /\ c.err = "none"
                           /\ c.res = SearchAtStart(c, kind).id

\* biosample() returned a Biosample that was in Target, while Target holds
\* neither its Donor nor its Vendor
C5_Witness ==
  \E c \in Range(done) :
    /\ c.fn = "biosample"
    /\ SearchAtStart(c, "Biosample").st = "one"
    /\ c.res = SearchAtStart(c, "Biosample").id
    /\ LinkedTo(target, "Donor", Get(Get(c.arg).donor)) = {}

\* ------------------------------------------------------------------- C6
KindOfFn(fn) ==
  CASE fn = "donor" -> "Donor"
    [] fn = "vendor" -> "Vendor"
    [] fn = "treatment" -> "Treatment"
    [] fn = "biosample" -> "Biosample"
    [] fn = "biosample_term_name" -> "BiosampleTermName"
    [] fn = "treatment_term_name" -> "TreatmentTermName"

\* the value that will link the record p is about to create
PendingLink(p) == Top(p).pl[LinkOf(KindOfFn(Top(p).fn))]

\* p is past a search without match and about to create a record, while
\* another invocation that overlaps it is about to create, or has created
\* since p started, a record of the same kind for the same Source identity
Racing(p) ==
  /\ stack[p] # << >>
  /\ Top(p).pc = "post"
  /\ \/ \E q \in Procs \ {p} :
          /\ At(q, Top(p).fn, "post")
          /\ PendingLink(q) = PendingLink(p)
     \/ \E i \in (cur[p].start + 1)..Len(target) :
          /\ target[i].kind = KindOfFn(Top(p).fn)
          /\ target[i].pl[LinkOf(target[i].kind)] = PendingLink(p)

\* C6: nothing excludes the duplicate: whenever two overlapping invocations
\* have both passed the search for the same Source identity without a match,
\* the next step of each of them posts its record, whether or not the other
\* has posted its own.
C6_NoLock ==
  [][\A p \in Procs :
       (Racing(p) /\ stack'[p] # stack[p])
       => target' = Append(target,
                      TargetRec(KindOfFn(Top(p).fn), cur[p].no, Top(p).pl))]_vars

\* two overlapping donor() calls for the same record have both returned, each
\* the Donor it created, and the two Donors have the same upstream identifier
C6_Witness ==
  \E a, b \in Range(done) :
    /\ a.fn = "donor" /\ b.fn = "donor"
    /\ a.arg = b.arg
    /\ a.no < b.no
    /\ a.res \in CreatedBy(a.no, "Donor")
    /\ b.res \in CreatedBy(b.no, "Donor")
    /\ target[a.res].pl[UPSTREAM_PROP] = target[b.res].pl[UPSTREAM_PROP]

\* ------------------------------------------------------------------- C7
DependencyKinds == {"BiosampleTermName", "Donor", "Vendor", "Treatment"}

\* no record that an aborted biosample() call created is created again by a
\* later biosample() call for the same record
NoSecondCreate ==
  \A a \in Range(done) : \A b \in Invocations :
    (/\ a.fn = "biosample" /\ b.fn = "biosample"
     /\ a.arg = b.arg
     /\ a.no < b.no
     /\ a.err # "none")
    => \A kind \in DependencyKinds :
         \A i \in CreatedBy(a.no, kind) : \A j \in CreatedBy(b.no, kind) :
           target[j].pl[LinkOf(kind)] # target[i].pl[LinkOf(kind)]

\* no step removes or changes a record of Target
NoRollback ==
  \A i \in DOMAIN target : i \in DOMAIN target' /\ target'[i] = target[i]

\* C7: the records that an aborted biosample() call created stay in Target,
\* and a retry of the call creates none of them a second time.
C7_Resumable == []NoSecondCreate /\ [][NoRollback]_vars

\* a biosample() call created the term name, the Donor and the Vendor and
\* then aborted; its retry resolved the three again and created nothing
C7_Witness ==
  \E a, b \in Range(done) :
    /\ a.fn = "biosample" /\ b.fn = "biosample"
    /\ a.arg = b.arg
    /\ a.no < b.no
    /\ a.err # "none"
    /\ CreatedBy(a.no, "BiosampleTermName") # {}
    /\ CreatedBy(a.no, "Donor") # {}
    /\ CreatedBy(a.no, "Vendor") # {}
    /\ {"biosample_term_name", "donor", "vendor"} \subseteq b.trail
    /\ \A i \in DOMAIN target : target[i].by # b.no

\* ------------------------------------------------------------------- C8
\* the Source record of the record of the kind that invocation c creates
SourceOf(c, kind) ==
  IF c.fn = FnOf(kind) THEN Get(c.arg)
  ELSE IF kind = "Donor" THEN Get(Get(c.arg).donor)
  ELSE Get(Get(c.arg).source)

\* C8 as claimed: every Donor, Vendor and Biosample created on a miss has the
\* first of the identifiers its search used as its upstream_identifier.
C8_FirstCandidate ==
  \A c \in Invocations : \A kind \in {"Donor", "Vendor", "Biosample"} :
    \A i \in CreatedBy(c.no, kind) :
      target[i].pl[UPSTREAM_PROP] = Candidates(kind, SourceOf(c, kind))[1]

\* C8 as amended: the upstream_identifier of a record created on a miss is
\* one of the identifiers its search used: the accession for a Donor and for
\* a Biosample, the @id for a Vendor; the payload that treatment() assembles
\* carries the first identifier of its search.
C8_UpstreamAmongCandidates ==
  /\ \A c \in Invocations : \A kind \in {"Donor", "Vendor", "Biosample"} :
       \A i \in CreatedBy(c.no, kind) :
         LET rec == SourceOf(c, kind)
             up == target[i].pl[UPSTREAM_PROP]
         IN  /\ up \in Range(Candidates(kind, rec))
             /\ kind \in {"Donor", "Biosample"} => up = rec.accession
             /\ kind = "Vendor" => up = rec.atid
  /\ \A p \in Procs : \A k \in DOMAIN stack[p] :
       (stack[p][k].fn = "treatment" /\ stack[p][k].pc # "find")
       => stack[p][k].pl[UPSTREAM_PROP]
            = TreatmentCandidates(Get(stack[p][k].arg))[1]

\* one biosample() call has created a Donor, a Vendor and a Biosample whose
\* Source record has an alias
C8_Witness ==
  \E c \in Range(done) :
    /\ CreatedBy(c.no, "Donor") # {}
    /\ CreatedBy(c.no, "Vendor") # {}
    /\ \E i \in CreatedBy(c.no, "Biosample") : Get(c.arg).aliases # << >>

\* ------------------------------------------------------------------- C9
\* the CRISPR genetic modifications that the biosample record links
CrisprLinks(rec) ==
  {k \in DOMAIN rec.genetic_modifications :
     Get(rec.genetic_modifications[k].accession).method = "CRISPR"}

\* C9: a biosample() call that created a Biosample whose Source record links
\* two CRISPR genetic modifications ends with a multiplicity error, and Target
\* never holds two CrisprModification records.
C9_MultiplicityError ==
  /\ \A k \in DOMAIN done :
       (/\ done[k].fn = "biosample"
        /\ CreatedBy(done[k].no, "Biosample") # {}
        /\ Cardinality(CrisprLinks(Get(done[k].arg))) >= 2)
       => done[k].err = "MultipleCrispr"
  /\ Cardinality({i \in DOMAIN target :
                    target[i].kind = "CrisprModification"}) < 2

\* ------------------------------------------------------------------ C10
\* Target, as invocation c found it, holds two records of the kind whose
\* upstream identifiers are two different identifiers of c's search
TwoMatches(c, kind) ==
  \E i, j \in DOMAIN TargetAtStart(c) :
    /\ target[i].kind = kind /\ target[j].kind = kind
    /\ UPSTREAM_PROP \in DOMAIN target[i].pl
    /\ UPSTREAM_PROP \in DOMAIN target[j].pl
    /\ target[i].pl[UPSTREAM_PROP] # target[j].pl[UPSTREAM_PROP]
    /\ {target[i].pl[UPSTREAM_PROP], target[j].pl[UPSTREAM_PROP]}
         \subseteq Range(Candidates(kind, Get(c.arg)))

NameCallsDone == {c \in Range(done) : c.fn = "set_name"}

HasAlias(rec) == Has(rec, ALIASES_PROP) /\ rec[ALIASES_PROP] # << >>

\* s without everything up to and including its first sep (s itself when it
\* holds no sep)
AfterFirst(s, sep) ==
  IF \E i \in DOMAIN s : s[i] = sep
    THEN LET k == CHOOSE i \in DOMAIN s :
                    s[i] = sep /\ \A j \in 1..(i - 1) : s[j] # sep
         IN  SubSeq(s, k + 1, Len(s))
    ELSE s

\* C11: for a record with at least one alias, set_name returns the whole
\* remainder of the first alias after its first ':' (checked for the aliases
\* that have a namespace prefix, as the Portal's have)
C11_NameFromAlias ==
  \A c \in NameCallsDone :
    (HasAlias(c.arg) /\ ":" \in Range(c.arg[ALIASES_PROP][1])) =>
      /\ c.err = "none"
      /\ c.res = AfterFirst(c.arg[ALIASES_PROP][1], ":")

\* C12: for a record without aliases (absent or empty) that has an accession,
\* set_name returns the accession
C12_NameFromAccession ==
  \A c \in NameCallsDone :
    (~HasAlias(c.arg) /\ Has(c.arg, ACCESSION_PROP)) =>
      /\ c.err = "none"
      /\ c.res = c.arg[ACCESSION_PROP]

\* C13: for a record with neither aliases nor accession, set_name returns the
\* uuid when there is one, and fails with the "Can't set name" exception when
\* there is none
C13_NameFromUuid ==
  \A c \in NameCallsDone :
    (~HasAlias(c.arg) /\ ~Has(c.arg, ACCESSION_PROP)) =>
      IF Has(c.arg, UUID_PROP)
        THEN c.err = "none" /\ c.res = c.arg[UUID_PROP]
        ELSE c.err = "Exception"

\* --------------------------------------------------- treatment temperature
\* the frames of treatment() whose payload holds all that lines 290-317 put in
TreatmentPayloads ==
  {f \in UNION {Range(stack[p]) : p \in Procs} :
     f.fn = "treatment" /\ f.pc = "name"}

TemperatureUnits == {"Celsius", "Kelvin", "Fahrenheit"}

\* a temperature of the unit in Celsius, in hundredths of a degree
InCelsius(temp, units) ==
  CASE units = "Celsius" -> temp
    [] units = "Kelvin" -> temp - 27315
    [] units = "Fahrenheit" -> ((temp - 3200) * 5) \div 9

\* C14: the temperature in the payload of a treatment whose Source record has
\* a temperature in Celsius, Kelvin or Fahrenheit is the Celsius value
C14_TemperatureCelsius ==
  \A f \in TreatmentPayloads :
    LET rec == Get(f.arg)
    IN  (Has(rec, "temperature") /\ rec.temperature_units \in TemperatureUnits)
        => /\ "temperature" \in DOMAIN f.pl
           /\ f.pl["temperature"] = InCelsius(rec.temperature, rec.temperature_units)

\* C15: a treatment() call that missed, for a Source record whose temperature
\* has a unit other than Celsius, Kelvin and Fahrenheit, ends with
\* UnsupportedUnit, creates no Treatment, and never holds the unconverted
\* value in its payload
C15_UnsupportedUnit ==
  /\ \A c \in Range(done) :
       (/\ c.fn = "treatment"
        /\ Has(Get(c.arg), "temperature")
        /\ Get(c.arg).temperature_units \notin TemperatureUnits
        /\ SearchAtStart(c, "Treatment").st = "none")
       => /\ c.err = "UnsupportedUnit"
          /\ CreatedBy(c.no, "Treatment") = {}
  /\ \A f \in TreatmentPayloads :
       LET rec == Get(f.arg)
       IN  (Has(rec, "temperature") /\ rec.temperature_units \notin TemperatureUnits)
           => "temperature" \notin DOMAIN f.pl

\* ----------------------------------------------------------- lookup terms
TermKinds == {"BiosampleTermName", "TreatmentTermName"}

\* the finished top-level calls of the function that resolves terms of a kind
TermCalls(kind) == {c \in Range(done) : c.fn = FnOf(kind)}

\* the records of a kind in tgt whose accession is the term identifier
TermsOf(tgt, kind, term_id) ==
  {i \in DOMAIN tgt : /\ tgt[i].kind = kind
                      /\ tgt[i].pl[ACCESSION_PROP] = term_id}

\* the parent ontology that the prefix of the term identifier names is in tgt
OntologyKnown(tgt, term_id) ==
  \E i \in DOMAIN tgt : /\ tgt[i].kind = "BiosampleOntology"
                         /\ tgt[i].pl["name"] = Split(term_id, ":")[1]

NothingResolved(c) ==
  \A i \in DOMAIN target :
    target[i].by = c.no => target[i].kind \notin TermKinds \cup {"BiosampleOntology"}

DataRows(sheet) == SelectSeq(sheet.rows, LAMBDA line : ~StartsWithHash(line))

\* the columns of a row that belong in its payload, each with the row's own
\* cell of that column: those whose field name is neither commented out nor
\* blank and whose cell is not empty
RowColumns(sheet, line) ==
  LET header == Split(sheet.header, TAB)
      cells == Split(line, TAB)
  IN  {<<header[j], IF EndsWithIds(header[j])
                      THEN SplitIds(Strip(cells[j])) ELSE Strip(cells[j])>> :
         j \in {i \in DOMAIN header : /\ IsField(header[i])
                                      /\ i \in DOMAIN cells
                                      /\ Strip(cells[i]) # << >>}}

\* the fields of a posted payload
Fields(pl) == {<<name, pl[name]>> : name \in DOMAIN pl}

\* C18: when tab_import has ended it has posted one record per row that does
\* not start with '#', in file order, and the payload of each holds exactly
\* the columns of that row that belong in it
C18_TabImport ==
  \A c \in Range(done) :
    c.fn = "main" =>
      LET rows == DataRows(c.arg)
      IN  /\ c.err = "none"
          /\ Len(target) = Len(rows)
          /\ \A k \in DOMAIN target :
               Fields(target[k].pl) = RowColumns(c.arg, rows[k])

\* ------------------------------------------------------ search identifiers
\* all aliases, then the accession if the record has one, then the uuid, then
\* the @id
AllIdentifiers(rec) ==
  rec.aliases
    \o (IF Has(rec, ACCESSION_PROP) THEN <<rec.accession>> ELSE << >>)
    \o <<rec.uuid, rec.atid>>

\* C19: the identifiers that donor(), treatment() and biosample() search
\* Target for are all aliases of the Source record, then its accession, then
\* its uuid, then its @id
C19_SearchIdentifiers ==
  \A c \in Invocations : \A kind \in {"Donor", "Treatment", "Biosample"} :
    (c.fn = FnOf(kind) /\ Get(c.arg) # NoRec)
      => Candidates(kind, Get(c.arg)) = AllIdentifiers(Get(c.arg))

\* ---------------------------------------------------- documents of a treatment
\* C20: a treatment() call that missed, for a Source record that links
\* documents and whose ConcentrationUnit is in Target, is not ended by the
\* failure of document(): it creates the Treatment and returns it
C20_DocumentsDoNotBlock ==
  \A c \in Range(done) :
    (/\ c.fn = "treatment"
     /\ Get(c.arg) # NoRec
     /\ Get(c.arg).documents # << >>
     /\ SearchAtStart(c, "Treatment").st = "none"
     /\ FindIn(TargetAtStart(c), "ConcentrationUnit", "name",
               {Get(c.arg).amount_units}).st = "one")
    => /\ c.err # "UnboundLocalError"
       /\ Cardinality(CreatedBy(c.no, "Treatment")) = 1
       /\ c.res \in CreatedBy(c.no, "Treatment")

\* ------------------------------------------------------------ treatment_ids
\* C21: the treatment_ids of a created Biosample has one id per treatment of
\* the Source record, the k-th being the id of the Target record of the k-th
\* treatment
C21_TreatmentIdsInOrder ==
  \A c \in Invocations : \A i \in CreatedBy(c.no, "Biosample") :
    LET treatments == Get(c.arg).treatments
        ids == target[i].pl["treatment_ids"]
    IN  /\ Len(ids) = Len(treatments)
        /\ \A k \in DOMAIN treatments :
             ids[k] \in LinkedTo(target, "Treatment", Get(treatments[k].uuid))

\* a Biosample was created for a Source record with two treatments, the
\* second of which has the lower Target id
C21_Witness ==
  \E c \in Invocations : \E i \in CreatedBy(c.no, "Biosample") :
    LET ids == target[i].pl["treatment_ids"]
    IN  Len(ids) = 2 /\ ids[2] < ids[1]

\* ---------------------------------------------------------- optional fields
\* the optional Source fields of a kind, each with the payload key it goes to
OptionalFields(kind) ==
  IF kind = "Donor"
    THEN {<<"age", "age">>, <<"sex", "gender">>}
    ELSE {<<"description", "description">>,
          <<"lot_id", "lot_identifier">>,
          <<"nih_institutional_certification", "nih_institutional_certification">>,
          <<"preservation_method", "tissue_preservation_method">>,
          <<"passage_number", "passage_number">>,
          <<"product_id", "vendor_product_identifier">>}

\* C22 as stated: in the payload of every created Biosample and Donor an
\* optional field that the Source record does not have has no key
C22_OptionalOmitted ==
  \A c \in Invocations : \A kind \in {"Biosample", "Donor"} :
    \A i \in CreatedBy(c.no, kind) : \A f \in OptionalFields(kind) :
      ~Has(SourceOf(c, kind), f[1]) => f[2] \notin DOMAIN target[i].pl

\* C22, amended: a created Donor has a key for an optional field only if the
\* Source record has the field; a created Biosample has a key for every
\* optional field, with the value None when the Source record lacks it; a
\* field the Source record has is copied
C22_OptionalOmittedOrNone ==
  /\ \A c \in Invocations : \A kind \in {"Biosample", "Donor"} :
       \A i \in CreatedBy(c.no, kind) : \A f \in OptionalFields(kind) :
         LET rec == SourceOf(c, kind)
             pl == target[i].pl
         IN  IF Has(rec, f[1])
               THEN f[2] \in DOMAIN pl /\ pl[f[2]] = rec[f[1]]
             ELSE IF kind = "Donor"
               THEN f[2] \notin DOMAIN pl
             ELSE f[2] \in DOMAIN pl /\ pl[f[2]] = None
  /\ \A c \in Invocations : \A i \in CreatedBy(c.no, "Biosample") :
       LET rec == Get(c.arg)
       IN  (~Has(rec, "date_obtained") /\ ~Has(rec, "culture_harvest_date"))
             => /\ "date_biosample_taken" \in DOMAIN target[i].pl
                /\ target[i].pl["date_biosample_taken"] = None

\* one biosample() call created a Donor and a Biosample, each from a Source
\* record that has one optional field and lacks another
C22_Witness ==
  \E c \in Range(done) :
    /\ \E i \in CreatedBy(c.no, "Donor") :
         Has(SourceOf(c, "Donor"), "age") /\ ~Has(SourceOf(c, "Donor"), "sex")
    /\ \E i \in CreatedBy(c.no, "Biosample") :
         Has(Get(c.arg), "description") /\ ~Has(Get(c.arg), "lot_id")

\* ------------------------------------------------- treatment() on a miss
\* the errors that end treatment() after a miss
TreatmentErrors == {"UnboundLocalError", "ConcentrationUnitNotFound", "NameError"}

\* the treatments of a biosample record that Target did not hold when
\* invocation c started
MissingTreatments(c) ==
  {k \in DOMAIN Get(c.arg).treatments :
     LinkedTo(TargetAtStart(c), "Treatment", Get(Get(c.arg).treatments[k].uuid)) = {}}

CrisprMiss(c) ==
  /\ c.fn = "biosample"
  /\ Get(c.arg) # NoRec
  /\ SearchAtStart(c, "Biosample").st = "none"
  /\ CrisprLinks(Get(c.arg)) # {}

\* the Portal has the donor and the vendor of c's record, and the Target c
\* started with has its biosample type, the ontology of its term and every
\* treatment it links
Backportable(c) ==
  LET rec == Get(c.arg)
      tgt == TargetAtStart(c)
  IN  /\ Get(rec.donor) # NoRec
      /\ Get(rec.source) # NoRec
      /\ OntologyKnown(tgt, rec.biosample_term_id)
      /\ \E i \in DOMAIN tgt : /\ tgt[i].kind = "BiosampleType"
                                /\ tgt[i].pl["name"] = rec.biosample_type
      /\ MissingTreatments(c) = {}

\* every call after done[k] for the record that done[k] created a Biosample
\* for returns that Biosample, calls no other function and creates nothing
LaterCallsHit(k) ==
  \A j \in (k + 1)..Len(done) :
    (done[j].fn = "biosample" /\ done[j].arg = done[k].arg)
      => /\ done[j].err = "none"
         /\ done[j].res \in CreatedBy(done[k].no, "Biosample")
         /\ done[j].trail = {}
         /\ \A i \in DOMAIN target : target[i].by # done[j].no

NoCrisprModification ==
  \A i \in DOMAIN target : target[i].kind # "CrisprModification"

====
